---- MODULE Spec2Model ----
(***************************************************************************)
(* Model of the CloudGuard Sentinel serving process (src/app/main.py):     *)
(* the global model_state, the start-up sequence (lifespan), the           *)
(* background refresh thread (background_model_refresher calling           *)
(* load_latest_model) and the request handlers /health and /predict,       *)
(* together with the environment they read: the MLflow registry alias and  *)
(* the feature_list.json file.                                             *)
(*                                                                         *)
(* Every statement of the code that reads or writes model_state is a step  *)
(* of its own, because the handlers run on worker threads while the        *)
(* refresh thread writes the dictionary key by key.                        *)
(***************************************************************************)
EXTENDS Integers, Sequences, FiniteSets, TLC

\* ------------------------------------------------------------------ bounds
\* Registry versions are 1..MaxVersion.
MaxVersion == 2
\* PREDICTIONS_TOTAL counts up to this; no request is scored beyond it.
MaxPredictions == 1
\* HEALTH_CHECKS_TOTAL counts up to this; no /health request is handled beyond it.
MaxHealthChecks == 1
\* How often the environment moves the "production" alias in one run.
MaxAliasChanges == 1
\* How often the training job (src/jobs/train.py) is run.
MaxRuns == 2
\* Accuracies are the levels 0..MaxAccuracy (0 is the accuracy 0.0).
MaxAccuracy == 2

\* ------------------------------------------------------- program constants
\* model_state["model"] is None: no model object is held.
None == 0
\* model_state["version"] is the string "N/A".
NA == 0
\* The label threshold 0.5, in thousandths.
THRESHOLD == 500

Versions == 1..MaxVersion

\* The name list load_feature_list falls back to (main.py lines 83-99); it is
\* also the field order of the Telemetry schema (lines 50-65), which is the
\* column order of pd.DataFrame([tel.model_dump()]).
FALLBACK_FEATURES ==
    << "air_temp_k", "proc_temp_k", "rpm", "torque_nm", "tool_wear_min",
       "TWF", "HDF", "PWF", "OSF", "RNF", "temp_diff_k", "power",
       "type_H", "type_L", "type_M" >>

TelemetryFields == FALLBACK_FEATURES

\* model_state["feature_list"] before lifespan has run (None, line 36).
NoFeatureList == << "None" >>

\* States of ml/models/feature_list.json that the build can ship.
FeatureFiles == {"absent", "unreadable", "reordered", "unknown_column"}

Reverse(s) == [i \in 1..Len(s) |-> s[Len(s) + 1 - i]]

\* What json.loads(features_path.read_text()) yields for a readable file.
FileContent(f) ==
    IF f = "reordered" THEN Reverse(FALLBACK_FEATURES)
    ELSE << "air_temp_k", "rpm", "vibration_mm_s" >>

\* load_feature_list(): the file's content when it exists and parses, the
\* hardcoded list when it does not exist, [] when reading or parsing raises.
load_feature_list(f) ==
    IF f = "absent" THEN FALLBACK_FEATURES
    ELSE IF f = "unreadable" THEN << >>
    ELSE FileContent(f)

Callers == {"main", "bg"}

VARIABLES
    regAlias,        \* version the alias "production" points to
    regUp,           \* the registry answers (FALSE: MLflow is unreachable, or it
                     \*   knows no alias "production" at the moment)
    aliasChanges,    \* how often the alias was moved (bounded by MaxAliasChanges)
    featFile,        \* state of feature_list.json in the image
    model_state,     \* the global dictionary {model, version, feature_list}
    MODEL_UPDATES_TOTAL,
    lsPc,            \* position of lifespan's start-up code
    bgPc,            \* position of background_model_refresher
    llm,             \* per caller: position and locals of load_latest_model
    outcome,         \* per caller: how the call of load_latest_model it has just
                     \*   made ended ("none" once the caller has moved on)
    pre,             \* per caller, during a call: model_state and the counter
                     \*   as they were when the call began
    published,       \* history: the last triple one writer wrote completely
    replacements,    \* history: how often a refresh has replaced the state
                     \*   (line 136 reached, the third key written)
    aliasHigh,       \* history: highest version the alias has pointed to
    rolledBack,      \* history: the alias was moved to a version below aliasHigh
    loadTried,       \* history: an artifact load was attempted by a refresh that
                     \*   queried the alias after its last move
    loadDone,        \* history: such a load succeeded
    pPc,             \* position of the /predict request being handled
    req,             \* its locals: df's columns, proba, label
    resp,            \* the response of the last /predict request
    audit,           \* what the last /predict request handed to S3
    seen,            \* history: the triples published while it was handled
    PREDICTIONS_TOTAL,
    LAST_FAILURE_RISK,
    hPc,             \* position of the /health request being handled
    is_ready,        \* its local
    hResp,           \* the response of the last /health request
    HEALTH_CHECKS_TOTAL,
    job,             \* the training job: position and locals of train()
    registered,      \* registry: the logged accuracy of each registered version
    prodStage        \* registry: the version in stage "production" (0: none)

vars == << regAlias, regUp, aliasChanges, featFile, model_state,
           MODEL_UPDATES_TOTAL, lsPc, bgPc, llm, outcome, pre, published,
           replacements, aliasHigh, rolledBack, loadTried, loadDone,
           pPc, req, resp, audit, seen, PREDICTIONS_TOTAL, LAST_FAILURE_RISK,
           hPc, is_ready, hResp, HEALTH_CHECKS_TOTAL, job, registered, prodStage >>

predVars == << pPc, req, resp, audit, PREDICTIONS_TOTAL, LAST_FAILURE_RISK >>
healthVars == << hPc, is_ready, hResp, HEALTH_CHECKS_TOTAL >>
readerVars == << predVars, healthVars >>
refreshVars == << model_state, MODEL_UPDATES_TOTAL, lsPc, bgPc, llm, outcome, pre,
                 published, replacements >>

trainVars == << job, registered, prodStage >>

\* What the serving process finds around it; the training job is part of it.
envVars == << regAlias, regUp, aliasChanges, featFile, aliasHigh, rolledBack, trainVars >>
histVars == << loadTried, loadDone >>

\* stale: the alias was moved after this call queried it.
Idle == [pc |-> "idle", latest_version |-> NA, loaded_model |-> None, stale |-> FALSE]

NoCall == [state |-> [model |-> None, version |-> NA, feature_list |-> NoFeatureList],
           updates |-> 0]

\* No /predict request has been handled, or the handler has not got there.
NoRequest == [cols |-> << >>, model |-> None, proba |-> 0, label |-> 0]
NoResponse == [code |-> 0, failure_risk |-> 0, label |-> 0, version |-> NA]
NoAudit == [sink |-> "none", label |-> 0, proba |-> 0, version |-> NA]
NoHealth == [code |-> 0, status |-> "none", model_version |-> NA]

Accuracies == 0..MaxAccuracy

\* train() has not been started: promote_model and the other locals do not
\* exist yet. lookup is how lines 136-172 ended, mv the registered version.
NoJob == [pc |-> "idle", runs |-> 0, new_accuracy |-> 0, lookup |-> "none",
          current_accuracy |-> 0, promote_model |-> FALSE, mv |-> 0,
          preRegistered |-> << >>, preProd |-> 0]

Init ==
    /\ regAlias \in Versions
    /\ regUp \in BOOLEAN
    /\ aliasChanges = 0
    /\ featFile \in FeatureFiles
    /\ model_state = [model |-> None, version |-> NA, feature_list |-> NoFeatureList]
    /\ MODEL_UPDATES_TOTAL = 0
    /\ lsPc = "L158"
    /\ bgPc = "off"
    /\ llm = [c \in Callers |-> Idle]
    /\ outcome = [c \in Callers |-> "none"]
    /\ pre = [c \in Callers |-> NoCall]
    /\ published = model_state
    /\ replacements = 0
    /\ aliasHigh = regAlias
    /\ rolledBack = FALSE
    /\ loadTried = FALSE
    /\ loadDone = FALSE
    /\ pPc = "idle"
    /\ req = NoRequest
    /\ resp = NoResponse
    /\ audit = NoAudit
    /\ seen = {}
    /\ PREDICTIONS_TOTAL = 0
    /\ LAST_FAILURE_RISK = 0
    /\ hPc = "idle"
    /\ is_ready = FALSE
    /\ hResp = NoHealth
    /\ HEALTH_CHECKS_TOTAL = 0
    /\ job = NoJob
    /\ registered = << >>
    /\ prodStage = 0

\* ------------------------------------------------------------- environment
\* Somebody moves the alias "production" of the registered model (the training
\* job moves the stage "production"; it does not set the alias).
SetAlias(v) ==
    /\ aliasChanges < MaxAliasChanges
    /\ v # regAlias
    /\ regAlias' = v
    /\ aliasChanges' = aliasChanges + 1
    /\ aliasHigh' = IF v > aliasHigh THEN v ELSE aliasHigh
    /\ rolledBack' = (rolledBack \/ v < aliasHigh)
    /\ llm' = [c \in Callers |->
                 IF llm[c].pc = "idle" THEN llm[c] ELSE [llm[c] EXCEPT !.stale = TRUE]]
    /\ loadTried' = FALSE
    /\ loadDone' = FALSE
    /\ UNCHANGED << readerVars, seen, regUp, featFile, model_state, MODEL_UPDATES_TOTAL, lsPc, bgPc,
                    outcome, pre, published, replacements, trainVars >>

\* The registry stops answering, or answers again.
RegistryFlap ==
    /\ regUp' = ~regUp
    /\ UNCHANGED << readerVars, seen, regAlias, aliasChanges, featFile, aliasHigh, rolledBack,
                    model_state, MODEL_UPDATES_TOTAL, lsPc, bgPc, llm, outcome,
                    pre, published, replacements, histVars, trainVars >>

\* ------------------------------------------------------ load_latest_model
\* A call by caller c begins: the frame is entered at line 110.
Enter(c) ==
    /\ llm' = [llm EXCEPT ![c] = [Idle EXCEPT !.pc = "L115"]]
    /\ pre' = [pre EXCEPT ![c] = [state |-> model_state, updates |-> MODEL_UPDATES_TOTAL]]

\* The call of caller c ends with outcome out. "raised" is an exception that
\* leaves load_latest_model: it ends lifespan's start-up, or the thread running
\* background_model_refresher, which has no handler around line 148.
Return(c, out) ==
    /\ llm' = [llm EXCEPT ![c] = Idle]
    /\ outcome' = [outcome EXCEPT ![c] = out]
    /\ pre' = [pre EXCEPT ![c] = NoCall]
    /\ IF c = "main"
       THEN /\ lsPc' = IF out = "raised" THEN "failed" ELSE "L165"
            /\ bgPc' = bgPc
       ELSE /\ bgPc' = IF out = "raised" THEN "dead" ELSE "L149"
            /\ lsPc' = lsPc

\* get_model_version_by_alias returns a version; otherwise it raises.
QueryAnswers == regUp

\* Mutant: the handler of lines 116-118 re-raises instead of returning.
QueryFails_Raises(c) ==
    /\ llm[c].pc = "L115"
    /\ ~QueryAnswers
    /\ Return(c, "raised")
    /\ UNCHANGED << readerVars, seen, envVars, histVars, model_state, MODEL_UPDATES_TOTAL, published, replacements >>

\* Mutant: a failed query empties the state ("no model in production").
QueryFails_DropsModel(c) ==
    /\ llm[c].pc = "L115"
    /\ ~QueryAnswers
    /\ Return(c, "query_failed")
    /\ model_state' = [model_state EXCEPT !.model = None, !.version = NA]
    /\ published' = model_state'
    /\ UNCHANGED << readerVars, seen, envVars, histVars, MODEL_UPDATES_TOTAL, replacements >>

\* Lines 111-118: the query raises; the inner handler logs and returns.
load_latest_model_QueryFails(c) ==
    /\ llm[c].pc = "L115"
    /\ ~QueryAnswers
    /\ Return(c, "query_failed")
    /\ UNCHANGED << readerVars, seen, envVars, histVars, model_state, MODEL_UPDATES_TOTAL, published, replacements >>

\* Mutant: the test of line 123 is missing, every answered query reloads.
UpToDate_Reloads(c) ==
    /\ llm[c].pc = "L115"
    /\ QueryAnswers
    /\ model_state.version = regAlias /\ model_state.model # None
    /\ llm' = [llm EXCEPT ![c].pc = "L131", ![c].latest_version = regAlias]
    /\ UNCHANGED << readerVars, seen, envVars, histVars, model_state, MODEL_UPDATES_TOTAL,
                    lsPc, bgPc, outcome, pre, published, replacements >>

\* Lines 115-124: the query answers the version this process already serves.
load_latest_model_UpToDate(c) ==
    /\ llm[c].pc = "L115"
    /\ QueryAnswers
    /\ model_state.version = regAlias /\ model_state.model # None
    /\ Return(c, "noop")
    /\ UNCHANGED << readerVars, seen, envVars, histVars, model_state, MODEL_UPDATES_TOTAL, published, replacements >>

\* Lines 115-128: the query answers another version, or no model is held.
load_latest_model_NewVersion(c) ==
    /\ llm[c].pc = "L115"
    /\ QueryAnswers
    /\ ~(model_state.version = regAlias /\ model_state.model # None)
    /\ llm' = [llm EXCEPT ![c].pc = "L131", ![c].latest_version = regAlias]
    /\ UNCHANGED << readerVars, seen, envVars, histVars, model_state, MODEL_UPDATES_TOTAL, lsPc, bgPc,
                    outcome, pre, published, replacements >>

\* mlflow.sklearn.load_model("models:/...@production") resolves the alias
\* again, at the time of the load.
LoadAnswers == regUp

\* Mutant: the state is emptied before the load, so a failed load leaves it empty.
LoadFails_ClearsState(c) ==
    /\ llm[c].pc = "L131"
    /\ ~LoadAnswers
    /\ Return(c, "load_failed")
    /\ model_state' = [model_state EXCEPT !.model = None, !.version = NA]
    /\ published' = model_state'
    /\ loadTried' = (loadTried \/ ~llm[c].stale)
    /\ UNCHANGED << readerVars, seen, envVars, loadDone, MODEL_UPDATES_TOTAL, replacements >>

\* Mutant: there is no handler at lines 141-142, the exception leaves the call.
LoadFails_Raises(c) ==
    /\ llm[c].pc = "L131"
    /\ ~LoadAnswers
    /\ Return(c, "raised")
    /\ loadTried' = (loadTried \/ ~llm[c].stale)
    /\ UNCHANGED << readerVars, seen, envVars, loadDone, model_state, MODEL_UPDATES_TOTAL, published, replacements >>

\* Mutant: the counter counts attempts, a failed load is counted too.
LoadFails_Counts(c) ==
    /\ llm[c].pc = "L131"
    /\ ~LoadAnswers
    /\ Return(c, "load_failed")
    /\ MODEL_UPDATES_TOTAL' = MODEL_UPDATES_TOTAL + 1
    /\ loadTried' = (loadTried \/ ~llm[c].stale)
    /\ UNCHANGED << readerVars, seen, envVars, loadDone, model_state, published, replacements >>

\* Line 131 raises; lines 141-142 log it and the call returns.
load_latest_model_LoadFails(c) ==
    /\ llm[c].pc = "L131"
    /\ ~LoadAnswers
    /\ Return(c, "load_failed")
    /\ loadTried' = (loadTried \/ ~llm[c].stale)
    /\ UNCHANGED << readerVars, seen, envVars, loadDone, model_state, MODEL_UPDATES_TOTAL, published, replacements >>

\* Line 131 returns the model the alias points to now.
load_latest_model_Load(c) ==
    /\ llm[c].pc = "L131"
    /\ LoadAnswers
    /\ llm' = [llm EXCEPT ![c].pc = "L134", ![c].loaded_model = regAlias]
    /\ loadTried' = (loadTried \/ ~llm[c].stale)
    /\ loadDone' = (loadDone \/ ~llm[c].stale)
    /\ UNCHANGED << readerVars, seen, envVars, model_state, MODEL_UPDATES_TOTAL, lsPc, bgPc,
                    outcome, pre, published, replacements >>

\* Line 134.
load_latest_model_SetModel(c) ==
    /\ llm[c].pc = "L134"
    /\ model_state' = [model_state EXCEPT !.model = llm[c].loaded_model]
    /\ llm' = [llm EXCEPT ![c].pc = "L135"]
    /\ UNCHANGED << readerVars, seen, envVars, histVars, MODEL_UPDATES_TOTAL, lsPc, bgPc,
                    outcome, pre, published, replacements >>

\* Mutant: the version is only ever raised.
SetVersion_KeepsNewest(c) ==
    /\ llm[c].pc = "L135"
    /\ model_state' = [model_state EXCEPT !.version =
                          IF llm[c].latest_version > @ THEN llm[c].latest_version ELSE @]
    /\ llm' = [llm EXCEPT ![c].pc = "L136"]
    /\ UNCHANGED << readerVars, seen, envVars, histVars, MODEL_UPDATES_TOTAL, lsPc, bgPc,
                    outcome, pre, published, replacements >>

\* Line 135.
load_latest_model_SetVersion(c) ==
    /\ llm[c].pc = "L135"
    /\ model_state' = [model_state EXCEPT !.version = llm[c].latest_version]
    /\ llm' = [llm EXCEPT ![c].pc = "L136"]
    /\ UNCHANGED << readerVars, seen, envVars, histVars, MODEL_UPDATES_TOTAL, lsPc, bgPc,
                    outcome, pre, published, replacements >>

\* Line 136; with it the three keys have all been written by this call.
load_latest_model_SetFeatureList(c) ==
    /\ llm[c].pc = "L136"
    /\ model_state' = [model_state EXCEPT !.feature_list = load_feature_list(featFile)]
    /\ published' = model_state'
    /\ replacements' = replacements + 1
    /\ seen' = IF pPc = "idle" THEN seen ELSE seen \cup {model_state'}
    /\ llm' = [llm EXCEPT ![c].pc = "L138"]
    /\ UNCHANGED << readerVars, envVars, histVars, MODEL_UPDATES_TOTAL, lsPc, bgPc,
                    outcome, pre >>

\* Lines 138-139: the counter, the log line, and the normal return.
load_latest_model_Counted(c) ==
    /\ llm[c].pc = "L138"
    /\ MODEL_UPDATES_TOTAL' = MODEL_UPDATES_TOTAL + 1
    /\ Return(c, "updated")
    /\ UNCHANGED << readerVars, seen, envVars, histVars, model_state, published, replacements >>

\* Line 115 never comes back: the call passes no timeout to the client, so a
\* registry that accepts the request and then stays silent holds the caller.
load_latest_model_QueryStalls(c) ==
    /\ llm[c].pc = "L115"
    /\ llm' = [llm EXCEPT ![c].pc = "L115_blocked"]
    /\ UNCHANGED << readerVars, seen, envVars, histVars, model_state, MODEL_UPDATES_TOTAL,
                    lsPc, bgPc, outcome, pre, published, replacements >>

\* Line 131 never comes back: the artifact download stays silent.
load_latest_model_LoadStalls(c) ==
    /\ llm[c].pc = "L131"
    /\ llm' = [llm EXCEPT ![c].pc = "L131_blocked"]
    /\ UNCHANGED << readerVars, seen, envVars, histVars, model_state, MODEL_UPDATES_TOTAL,
                    lsPc, bgPc, outcome, pre, published, replacements >>

load_latest_model(c) ==
    \/ load_latest_model_QueryFails(c)
    \/ load_latest_model_UpToDate(c)
    \/ load_latest_model_NewVersion(c)
    \/ load_latest_model_LoadFails(c)
    \/ load_latest_model_Load(c)
    \/ load_latest_model_SetModel(c)
    \/ load_latest_model_SetVersion(c)
    \/ load_latest_model_SetFeatureList(c)
    \/ load_latest_model_Counted(c)

\* ---------------------------------------------------------------- lifespan
\* Line 158.
lifespan_LoadFeatures ==
    /\ lsPc = "L158"
    /\ model_state' = [model_state EXCEPT !.feature_list = load_feature_list(featFile)]
    /\ published' = model_state'
    /\ lsPc' = "L162"
    /\ UNCHANGED << readerVars, seen, envVars, histVars, MODEL_UPDATES_TOTAL, bgPc, llm, outcome,
                    pre, replacements >>

\* Mutant: the thread is started before the first call, not after it.
InitialLoad_StartsThreadFirst ==
    /\ lsPc = "L162"
    /\ llm["main"].pc = "idle"
    /\ Enter("main")
    /\ bgPc' = "L148"
    /\ UNCHANGED << readerVars, seen, envVars, histVars, model_state,
                    MODEL_UPDATES_TOTAL, lsPc, outcome, published, replacements >>

\* Line 162: the blocking first call.
lifespan_InitialLoad ==
    /\ lsPc = "L162"
    /\ llm["main"].pc = "idle"
    /\ Enter("main")
    /\ UNCHANGED << readerVars, seen, envVars, histVars, model_state,
                    MODEL_UPDATES_TOTAL, lsPc, bgPc, outcome, published, replacements >>

\* Lines 165-168: the thread is started and the application begins to serve.
lifespan_StartThread ==
    /\ lsPc = "L165"
    /\ lsPc' = "serving"
    /\ bgPc' = "L148"
    /\ outcome' = [outcome EXCEPT !["main"] = "none"]
    /\ UNCHANGED << readerVars, seen, envVars, histVars, model_state,
                    MODEL_UPDATES_TOTAL, llm, pre, published, replacements >>

\* ---------------------------------------------- background_model_refresher
\* Line 148: the loop calls load_latest_model.
background_model_refresher_Call ==
    /\ bgPc = "L148"
    /\ llm["bg"].pc = "idle"
    /\ Enter("bg")
    /\ UNCHANGED << readerVars, seen, envVars, histVars, model_state,
                    MODEL_UPDATES_TOTAL, lsPc, bgPc, outcome, published, replacements >>

\* Mutant: the loop body runs once ("if" for "while").
Sleep_Exits ==
    /\ bgPc = "L149"
    /\ bgPc' = "dead"
    /\ outcome' = [outcome EXCEPT !["bg"] = "none"]
    /\ UNCHANGED << readerVars, seen, envVars, histVars, model_state,
                    MODEL_UPDATES_TOTAL, lsPc, llm, pre, published, replacements >>

\* Line 149: the sleep ends and the loop starts over.
background_model_refresher_Sleep ==
    /\ bgPc = "L149"
    /\ bgPc' = "L148"
    /\ outcome' = [outcome EXCEPT !["bg"] = "none"]
    /\ UNCHANGED << readerVars, seen, envVars, histVars, model_state,
                    MODEL_UPDATES_TOTAL, lsPc, llm, pre, published, replacements >>

\* ------------------------------------------------------------------ /health
\* Mutant: readiness tests the dictionary, not its "model" key.
health_ReadModel_AlwaysReady ==
    /\ lsPc = "serving"
    /\ hPc = "idle"
    /\ HEALTH_CHECKS_TOTAL < MaxHealthChecks
    /\ HEALTH_CHECKS_TOTAL' = HEALTH_CHECKS_TOTAL + 1
    /\ is_ready' = TRUE
    /\ hResp' = NoHealth
    /\ hPc' = "L187"
    /\ UNCHANGED << predVars, seen, envVars, histVars, refreshVars >>

\* Lines 183-184: the counter, and the read of model_state["model"].
health_ReadModel ==
    /\ lsPc = "serving"
    /\ hPc = "idle"
    /\ HEALTH_CHECKS_TOTAL < MaxHealthChecks
    /\ HEALTH_CHECKS_TOTAL' = HEALTH_CHECKS_TOTAL + 1
    /\ is_ready' = (model_state.model # None)
    /\ hResp' = NoHealth
    /\ hPc' = "L187"
    /\ UNCHANGED << predVars, seen, envVars, histVars, refreshVars >>

\* Lines 185-189: the body is built, reading model_state["version"], and sent.
health_Respond ==
    /\ hPc = "L187"
    /\ hResp' = [code |-> 200,
                 status |-> IF is_ready THEN "ok" ELSE "loading_or_error",
                 model_version |-> model_state.version]
    /\ is_ready' = FALSE
    /\ hPc' = "idle"
    /\ UNCHANGED << HEALTH_CHECKS_TOTAL, predVars, seen, envVars, histVars, refreshVars >>

health == health_ReadModel \/ health_Respond

\* ----------------------------------------------------------------- /predict
\* The request ends with an HTTPException of this status code.
Fails(code) ==
    /\ resp' = [NoResponse EXCEPT !.code = code]
    /\ req' = NoRequest
    /\ seen' = {}
    /\ pPc' = "idle"

\* if model_state["feature_list"]: None and [] are falsy.
Truthy(fl) == fl # NoFeatureList /\ fl # << >>

\* df[names] raises KeyError when a name is no column of df.
HasColumns(names) == \A i \in 1..Len(names) : \E j \in 1..Len(TelemetryFields) :
                        TelemetryFields[j] = names[i]

\* predict_proba(df)[0][1] of the registered model m for the request's row, in
\* thousandths: each registered version is a classifier of its own.
predict_proba(m) == IF m = 1 THEN 499 ELSE IF m = 2 THEN 500 ELSE 820

\* Line 194: the condition under which /predict answers 503.
ModelUnavailable == model_state.model = None

\* Mutant: requests are accepted while lifespan's start-up is still running.
predict_CheckModel_BeforeStartup ==
    /\ pPc = "idle"
    /\ audit' = NoAudit
    /\ IF ModelUnavailable
       THEN Fails(503)
       ELSE /\ pPc' = "L200"
            /\ req' = NoRequest
            /\ resp' = NoResponse
            /\ seen' = {published}
    /\ UNCHANGED << PREDICTIONS_TOTAL, LAST_FAILURE_RISK, healthVars, envVars,
                    histVars, refreshVars >>

\* Lines 194-195: a validated Telemetry body has arrived.
predict_CheckModel ==
    /\ lsPc = "serving"
    /\ pPc = "idle"
    /\ audit' = NoAudit
    /\ IF ModelUnavailable
       THEN Fails(503)
       ELSE /\ pPc' = "L200"
            /\ req' = NoRequest
            /\ resp' = NoResponse
            /\ seen' = {published}
    /\ UNCHANGED << PREDICTIONS_TOTAL, LAST_FAILURE_RISK, healthVars, envVars,
                    histVars, refreshVars >>

\* Lines 200-204: the one-row frame in the schema's field order, and the test
\* of model_state["feature_list"].
predict_CheckFeatureList ==
    /\ pPc = "L200"
    /\ req' = [req EXCEPT !.cols = TelemetryFields]
    /\ pPc' = IF Truthy(model_state.feature_list) THEN "L205" ELSE "L214"
    /\ UNCHANGED << resp, audit, seen, PREDICTIONS_TOTAL, LAST_FAILURE_RISK,
                    healthVars, envVars, histVars, refreshVars >>

\* Lines 205-209: the columns are selected in the list's order, or KeyError.
predict_Reorder ==
    /\ pPc = "L205"
    /\ IF HasColumns(model_state.feature_list)
       THEN /\ req' = [req EXCEPT !.cols = model_state.feature_list]
            /\ pPc' = "L214"
            /\ resp' = resp
            /\ seen' = seen
       ELSE Fails(400)
    /\ UNCHANGED << audit, PREDICTIONS_TOTAL, LAST_FAILURE_RISK,
                    healthVars, envVars, histVars, refreshVars >>

\* Mutant: the label is int(proba > 0.5).
predict_Score_StrictThreshold ==
    /\ pPc = "L214"
    /\ PREDICTIONS_TOTAL < MaxPredictions
    /\ req' = [req EXCEPT !.model = model_state.model,
                          !.proba = predict_proba(model_state.model),
                          !.label = IF predict_proba(model_state.model) > THRESHOLD
                                    THEN 1 ELSE 0]
    /\ PREDICTIONS_TOTAL' = PREDICTIONS_TOTAL + 1
    /\ LAST_FAILURE_RISK' = req'.proba
    /\ pPc' = "L226"
    /\ UNCHANGED << resp, audit, seen, healthVars, envVars, histVars, refreshVars >>

\* Lines 214-218: the model is read again and scores the frame.
predict_Score ==
    /\ pPc = "L214"
    /\ PREDICTIONS_TOTAL < MaxPredictions
    /\ req' = [req EXCEPT !.model = model_state.model,
                          !.proba = predict_proba(model_state.model),
                          !.label = IF predict_proba(model_state.model) >= THRESHOLD
                                    THEN 1 ELSE 0]
    /\ PREDICTIONS_TOTAL' = PREDICTIONS_TOTAL + 1
    /\ LAST_FAILURE_RISK' = req'.proba
    /\ pPc' = "L226"
    /\ UNCHANGED << resp, audit, seen, healthVars, envVars, histVars, refreshVars >>

\* Mutant: the audit record is put before the model is asked, so a request
\* that ends in 500 has written one.
ScoreFails_WritesAudit ==
    /\ pPc = "L214"
    /\ Fails(500)
    /\ audit' = [sink |-> "written", label |-> 0, proba |-> 0,
                 version |-> model_state.version]
    /\ UNCHANGED << PREDICTIONS_TOTAL, LAST_FAILURE_RISK,
                    healthVars, envVars, histVars, refreshVars >>

\* Lines 214, 220-222: predict_proba raises.
predict_ScoreFails ==
    /\ pPc = "L214"
    /\ Fails(500)
    /\ UNCHANGED << audit, PREDICTIONS_TOTAL, LAST_FAILURE_RISK,
                    healthVars, envVars, histVars, refreshVars >>

\* Mutant: there is no handler at lines 247-249, a failed put ends the request.
predict_Audit_FailureRaises ==
    /\ pPc = "L226"
    /\ \E sink \in {"written", "failed"} :
          /\ audit' = [sink |-> sink, label |-> req.label, proba |-> req.proba,
                       version |-> model_state.version]
          /\ IF sink = "failed"
             THEN Fails(500)
             ELSE pPc' = "L251" /\ UNCHANGED << req, resp, seen >>
    /\ UNCHANGED << PREDICTIONS_TOTAL, LAST_FAILURE_RISK,
                    healthVars, envVars, histVars, refreshVars >>

\* Lines 225-249: the record is built, reading model_state["version"], and
\* put to S3; a failure of the put is logged and dropped.
predict_Audit ==
    /\ pPc = "L226"
    /\ \E sink \in {"written", "failed"} :
          audit' = [sink |-> sink, label |-> req.label, proba |-> req.proba,
                    version |-> model_state.version]
    /\ pPc' = "L251"
    /\ UNCHANGED << req, resp, seen, PREDICTIONS_TOTAL, LAST_FAILURE_RISK,
                    healthVars, envVars, histVars, refreshVars >>

\* Line 251: the body is built, reading model_state["version"] again.
predict_Respond ==
    /\ pPc = "L251"
    /\ resp' = [code |-> 200, failure_risk |-> req.proba, label |-> req.label,
                version |-> model_state.version]
    /\ req' = NoRequest
    /\ seen' = {}
    /\ pPc' = "idle"
    /\ UNCHANGED << audit, PREDICTIONS_TOTAL, LAST_FAILURE_RISK,
                    healthVars, envVars, histVars, refreshVars >>

predict ==
    \/ predict_CheckModel
    \/ predict_CheckFeatureList
    \/ predict_Reorder
    \/ predict_Score
    \/ predict_ScoreFails
    \/ predict_Audit
    \/ predict_Respond

\* ----------------------------------------------------- train (jobs/train.py)
\* What the job leaves alone: the serving process and the alias.
servingVars == << readerVars, seen, histVars, refreshVars, regAlias, regUp, aliasChanges,
                 featFile, aliasHigh, rolledBack >>

\* A call of the job to the MLflow server returns; otherwise it raises.
ServerAnswers == regUp

\* Lines 99-134: the run is started, the model trained and evaluated, the
\* accuracy logged; promote_model = False.
train_Evaluate ==
    /\ job.pc = "idle"
    /\ job.runs < MaxRuns
    /\ ServerAnswers
    /\ \E a \in Accuracies :
          job' = [NoJob EXCEPT !.pc = "L138", !.runs = job.runs + 1, !.new_accuracy = a,
                               !.preRegistered = registered, !.preProd = prodStage]
    /\ UNCHANGED << servingVars, registered, prodStage >>

\* Mutant: only a strictly better model is promoted.
train_Lookup_StrictlyBetter ==
    /\ job.pc = "L138"
    /\ IF ~ServerAnswers
       THEN job' = [job EXCEPT !.pc = "L175", !.lookup = "failed", !.promote_model = TRUE]
       ELSE IF prodStage = 0
       THEN job' = [job EXCEPT !.pc = "L175", !.lookup = "no_production",
                               !.promote_model = TRUE]
       ELSE \E history \in {"logged", "empty"} :
              LET current_accuracy == IF history = "logged" THEN registered[prodStage]
                                      ELSE 0
              IN job' = [job EXCEPT !.pc = "L175", !.lookup = "found",
                                    !.current_accuracy = current_accuracy,
                                    !.promote_model = (job.new_accuracy > current_accuracy)]
    /\ UNCHANGED << servingVars, registered, prodStage >>

\* Lines 136-172: the production version is looked up and its accuracy is
\* compared. A call that raises (138 or 145) promotes by default, as does an
\* empty answer of line 138; a metric history that is empty counts as 0.0.
train_Lookup ==
    /\ job.pc = "L138"
    /\ IF ~ServerAnswers
       THEN job' = [job EXCEPT !.pc = "L175", !.lookup = "failed", !.promote_model = TRUE]
       ELSE IF prodStage = 0
       THEN job' = [job EXCEPT !.pc = "L175", !.lookup = "no_production",
                               !.promote_model = TRUE]
       ELSE \E history \in {"logged", "empty"} :
              LET current_accuracy == IF history = "logged" THEN registered[prodStage]
                                      ELSE 0
              IN job' = [job EXCEPT !.pc = "L175", !.lookup = "found",
                                    !.current_accuracy = current_accuracy,
                                    !.promote_model = (job.new_accuracy >= current_accuracy)]
    /\ UNCHANGED << servingVars, registered, prodStage >>

\* Line 175: the model is logged to the run (no version is registered by it).
train_LogModel ==
    /\ job.pc = "L175"
    /\ ServerAnswers
    /\ job' = [job EXCEPT !.pc = "L178"]
    /\ UNCHANGED << servingVars, registered, prodStage >>

\* Line 178, promote_model is False: the job ends.
train_NotPromoted ==
    /\ job.pc = "L178"
    /\ ~job.promote_model
    /\ job' = [job EXCEPT !.pc = "done"]
    /\ UNCHANGED << servingVars, registered, prodStage >>

\* Lines 178-180: the logged model becomes the next version of the model.
train_Register ==
    /\ job.pc = "L178"
    /\ job.promote_model
    /\ ServerAnswers
    /\ registered' = Append(registered, job.new_accuracy)
    /\ job' = [job EXCEPT !.pc = "L183", !.mv = Len(registered) + 1]
    /\ UNCHANGED << servingVars, prodStage >>

\* Lines 183-188: that version is moved to the stage "production".
train_Transition ==
    /\ job.pc = "L183"
    /\ ServerAnswers
    /\ prodStage' = job.mv
    /\ job' = [job EXCEPT !.pc = "done"]
    /\ UNCHANGED << servingVars, registered >>

\* A call of line 175, 180 or 183 raises: nothing handles it, the job ends
\* with the exception.
train_Raises ==
    /\ \/ job.pc \in {"L175", "L183"}
       \/ job.pc = "L178" /\ job.promote_model
    /\ ~ServerAnswers
    /\ job' = [job EXCEPT !.pc = "raised"]
    /\ UNCHANGED << servingVars, registered, prodStage >>

\* Line 200, the next time the job is run.
train_Again ==
    /\ job.pc \in {"done", "raised"}
    /\ job.runs < MaxRuns
    /\ job' = [NoJob EXCEPT !.runs = job.runs]
    /\ UNCHANGED << servingVars, registered, prodStage >>

train ==
    \/ train_Evaluate
    \/ train_Lookup
    \/ train_LogModel
    \/ train_NotPromoted
    \/ train_Register
    \/ train_Transition
    \/ train_Raises
    \/ train_Again

\* ----------------------------------------------------------- specifications
Environment == (\E v \in Versions : SetAlias(v)) \/ RegistryFlap

Refresh ==
    \/ lifespan_LoadFeatures
    \/ lifespan_InitialLoad
    \/ lifespan_StartThread
    \/ background_model_refresher_Call
    \/ background_model_refresher_Sleep
    \/ \E c \in Callers : load_latest_model(c)

\* The refresh path and its environment.
Next == Environment \/ Refresh

Spec == Init /\ [][Next]_vars

\* The refresh path with /predict requests served beside it.
NextPredict == Environment \/ Refresh \/ predict

PredictSpec == Init /\ [][NextPredict]_vars

\* The refresh path with /health requests served beside it.
NextHealth == Environment \/ Refresh \/ health

HealthSpec == Init /\ [][NextHealth]_vars

\* The process from its start until a model is first stored (line 134), with
\* both handlers beside it: the steps that can be taken while no model is held.
NextDegraded ==
    \/ Environment
    \/ lifespan_LoadFeatures
    \/ lifespan_InitialLoad
    \/ lifespan_StartThread
    \/ background_model_refresher_Call
    \/ background_model_refresher_Sleep
    \/ \E c \in Callers : \/ load_latest_model_QueryFails(c)
                           \/ load_latest_model_NewVersion(c)
                           \/ load_latest_model_LoadFails(c)
                           \/ load_latest_model_Load(c)
    \/ predict_CheckModel
    \/ health

DegradedSpec == Init /\ [][NextDegraded]_vars

\* The whole process, with both handlers beside the refresh path, against a
\* registry whose alias stays where it is.
NextServe == RegistryFlap \/ Refresh \/ predict \/ health

ServeSpec == Init /\ [][NextServe]_vars

\* The training job, run again and again against the same registry.
NextTrain == RegistryFlap \/ train

TrainSpec == Init /\ [][NextTrain]_vars

\* The refresh path alone, its threads scheduled again and again: start-up
\* runs to its end, and the sleep of line 149 ends.
LiveSpec == Init /\ [][Next]_vars /\ WF_vars(Refresh)

\* The refresh path against a registry that may also stall: a call of line 115
\* or line 131 that is answered by nothing. The threads are scheduled again and
\* again, as in LiveSpec.
RegistryStalls ==
    \E c \in Callers : load_latest_model_QueryStalls(c) \/ load_latest_model_LoadStalls(c)

NextStall == Next \/ RegistryStalls

StallSpec == Init /\ [][NextStall]_vars /\ WF_vars(Refresh)

\* ------------------------------------------------------------------- claims

\* C1: whenever a reader can read model_state (the application serves), the
\* triple (model, version, feature_list) in it is one that a single writer
\* wrote completely: never the model of one refresh beside the version or
\* feature list of an earlier state.
C1_ReaderSeesPublishedTriple ==
    lsPc = "serving" => model_state = published

\* C2: when a /predict request answers, the model that scored, the column
\* order, the version in the audit record and the version in the response are
\* those of one triple that was published while it was handled.
C2_RequestUsesOnePublishedState ==
    [][(pPc = "L251" /\ pPc' = "idle") =>
         \E p \in seen :
            /\ p.model = req.model
            /\ req.cols = IF Truthy(p.feature_list) THEN p.feature_list
                          ELSE TelemetryFields
            /\ p.version = audit.version
            /\ p.version = resp'.version]_vars

\* C3: when the artifact load of a call fails (line 131 raises), the call
\* returns with model_state and MODEL_UPDATES_TOTAL as they were when the
\* call began.
C3_FailedLoadKeepsState ==
    [][\A c \in Callers :
         (llm[c].pc = "L131" /\ llm'[c].pc = "idle") =>
            /\ outcome'[c] = "load_failed"
            /\ model_state' = pre[c].state
            /\ MODEL_UPDATES_TOTAL' = pre[c].updates]_vars

C3_Witness ==
    /\ outcome["bg"] = "load_failed"
    /\ model_state.model # None
    /\ model_state.version # regAlias
    /\ model_state = published

\* C4: when the version query fails, the call returns to its caller at once
\* and normally (the caller goes on), without an artifact load, and
\* model_state is as it was when the call began.
C4_FailedQueryReturnsQuietly ==
    [][\A c \in Callers :
         (llm[c].pc = "L115" /\ ~QueryAnswers /\ llm'[c].pc # "L115") =>
            /\ llm'[c].pc = "idle"
            /\ outcome'[c] = "query_failed"
            /\ IF c = "main" THEN lsPc' = "L165" ELSE bgPc' = "L149"
            /\ loadTried' = loadTried /\ loadDone' = loadDone
            /\ model_state' = pre[c].state
            /\ MODEL_UPDATES_TOTAL' = pre[c].updates]_vars

C4_Witness ==
    /\ outcome["bg"] = "query_failed"
    /\ bgPc = "L149"
    /\ model_state.model # None

\* C5: once model_state holds a model it holds one for ever, whatever the
\* refreshes do, and a /predict request arriving then is never answered 503.
C5_ModelNeverAbsentAgain ==
    [][/\ ~ModelUnavailable => ~ModelUnavailable'
       /\ (~ModelUnavailable /\ pPc = "idle" /\ resp' # resp) => resp'.code # 503]_vars

C5_Witness ==
    /\ outcome["bg"] \in {"query_failed", "load_failed"}
    /\ ~ModelUnavailable
    /\ resp.code = 200

\* C6 as stated: every change of the served version is to a higher version.
C6_VersionNeverDecreases ==
    [][model_state'.version >= model_state.version]_vars

\* C6 as amended: every change of the served version is to the version the
\* registry answered in that refresh, and it is a lower one only when the
\* registry's alias had itself been moved back to a lower version.
C6_VersionFollowsRegistry ==
    [][/\ \A c \in Callers :
            (llm[c].pc = "L135" /\ llm'[c].pc = "L136") =>
               model_state'.version = llm[c].latest_version
       /\ model_state'.version # model_state.version =>
            \E c \in Callers : llm[c].pc = "L135" /\ llm'[c].pc = "L136"
       /\ model_state'.version < model_state.version => rolledBack]_vars

C6_Witness ==
    /\ rolledBack
    /\ MODEL_UPDATES_TOTAL >= 2
    /\ model_state = published
    /\ model_state.version = regAlias
    /\ model_state.version < aliasHigh

\* The part of C7 that holds: a call that finds the registry's version equal to
\* the served one, with a model held, returns without a load or any change.
NoOpWhenUpToDate ==
    \A c \in Callers :
       (/\ llm[c].pc = "L115" /\ llm'[c].pc # "L115"
        /\ QueryAnswers /\ model_state.version = regAlias /\ ~ModelUnavailable) =>
          /\ llm'[c].pc = "idle"
          /\ outcome'[c] = "noop"
          /\ model_state' = model_state
          /\ MODEL_UPDATES_TOTAL' = MODEL_UPDATES_TOTAL
          /\ loadTried' = loadTried /\ loadDone' = loadDone

\* C7 as stated: besides, the refreshes that query the alias while it stays
\* where it is perform at most one artifact load between them.
C7_AtMostOneLoad ==
    [][/\ NoOpWhenUpToDate
       /\ \A c \in Callers :
            (llm[c].pc = "L131" /\ llm'[c].pc # "L131" /\ ~llm[c].stale) =>
               ~loadTried]_vars

\* C7 as amended: besides, those refreshes perform at most one artifact load
\* that succeeds between them (a load that failed is attempted again).
C7_AtMostOneSuccessfulLoad ==
    [][/\ NoOpWhenUpToDate
       /\ \A c \in Callers :
            (llm[c].pc = "L131" /\ llm'[c].pc = "L134" /\ ~llm[c].stale) =>
               ~loadDone]_vars

C7_Witness ==
    /\ outcome["bg"] = "noop"
    /\ loadDone
    /\ MODEL_UPDATES_TOTAL = 1

\* C8: a start-up whose version query fails still goes on to serve; and while
\* no model is held, every /predict response is a 503 and every /health
\* response is a 200 that reports not-ready with the version "N/A".
C8_DegradedStartServes ==
    /\ lsPc # "failed"
    /\ outcome["main"] = "query_failed" => lsPc = "L165"
    /\ ModelUnavailable =>
          /\ pPc = "idle"
          /\ resp.code \in {0, 503}
          /\ hResp.code # 0 =>
                hResp = [code |-> 200, status |-> "loading_or_error",
                         model_version |-> NA]

C8_Witness ==
    /\ lsPc = "serving"
    /\ ModelUnavailable
    /\ resp.code = 503
    /\ hResp.status = "loading_or_error"
    /\ hResp.model_version = NA

\* A call has stored a model (line 134), now or earlier.
ModelStored ==
    published.model # None \/ \E c \in Callers : llm[c].pc \in {"L135", "L136"}

\* C9: /predict answers 503 exactly until a refresh has stored a model; and if
\* from some time on the registry always answers, a model is stored at last
\* and /predict never answers 503 again.
C9_DegradedStartRecovers ==
    /\ [](ModelUnavailable <=> ~ModelStored)
    /\ (<>[]regUp) => <>[](~ModelUnavailable)

C9_Witness ==
    /\ lsPc = "serving"
    /\ llm["bg"].pc = "L138"
    /\ pre["bg"].state.model = None
    /\ ~ModelUnavailable

\* C10: the thread of background_model_refresher never ends; whichever way a
\* call of load_latest_model ended, failures included, the loop is at its
\* sleep and the next iteration follows.
C10_LoopSurvivesFailures ==
    /\ bgPc # "dead"
    /\ outcome["bg"] # "raised"
    /\ outcome["bg"] # "none" =>
          /\ bgPc = "L149"
          /\ ENABLED background_model_refresher_Sleep

C10_Witness ==
    /\ outcome["bg"] = "load_failed"
    /\ bgPc = "L149"
    /\ MODEL_UPDATES_TOTAL = 0

\* C11: also against a registry that stalls, every call of load_latest_model
\* that has begun returns at last, and an iteration of the background loop in
\* progress is followed by the start of a further iteration.
C11_StalledRegistryCannotWedge ==
    /\ \A c \in Callers : (llm[c].pc # "idle") ~> (llm[c].pc = "idle")
    /\ (bgPc = "L148" /\ llm["bg"].pc # "idle") ~> (bgPc = "L148" /\ llm["bg"].pc = "idle")

\* C12: at most one call of load_latest_model is in progress at any time: the
\* start-up call is over before the background thread exists, the thread makes
\* one call at a time, and so model_state has at most one writer.
C12_OneRefreshAtATime ==
    /\ Cardinality({c \in Callers : llm[c].pc # "idle"}) <= 1
    /\ llm["main"].pc # "idle" => bgPc = "off"
    /\ bgPc # "off" => llm["main"].pc = "idle" /\ lsPc = "serving"

C12_Witness ==
    /\ llm["bg"].pc = "L135"
    /\ outcome["main"] = "none"
    /\ MODEL_UPDATES_TOTAL = 1

\* C13: no request is handled and the background thread does not exist until
\* lifespan's start-up is over, and start-up goes past line 162 only by the
\* return of the first call of load_latest_model; afterwards only the
\* background loop calls it, and between two of its calls lies the sleep of
\* line 149.
C13_StartupRefreshFirst ==
    /\ []((pPc # "idle" \/ hPc # "idle" \/ resp # NoResponse \/ hResp # NoHealth
           \/ bgPc # "off") => (lsPc = "serving" /\ llm["main"].pc = "idle"))
    /\ [][/\ (lsPc = "L162" /\ lsPc' # "L162") =>
                (llm["main"].pc # "idle" /\ llm'["main"].pc = "idle")
          /\ lsPc = "serving" => (lsPc' = "serving" /\ llm'["main"].pc = "idle")
          /\ (llm["bg"].pc = "idle" /\ llm'["bg"].pc # "idle") =>
                (bgPc = "L148" /\ outcome["bg"] = "none")
          /\ (llm["bg"].pc # "idle" /\ llm'["bg"].pc = "idle") => bgPc' = "L149"]_vars

C13_Witness ==
    /\ lsPc = "serving"
    /\ resp.code # 0
    /\ hResp.code # 0
    /\ llm["bg"].pc = "L115"
    /\ MODEL_UPDATES_TOTAL = 1

\* C14: whichever way the put to the audit sink ends, the request goes on to
\* line 251 with proba and label as they were, and the response is 200 with
\* that proba, that label and the version model_state holds: nothing in it
\* depends on the sink.
C14_AuditFailureKeepsResponse ==
    [][/\ (pPc = "L226" /\ pPc' # "L226") =>
            /\ pPc' = "L251"
            /\ req' = req /\ resp' = resp
            /\ PREDICTIONS_TOTAL' = PREDICTIONS_TOTAL
            /\ LAST_FAILURE_RISK' = LAST_FAILURE_RISK
       /\ (pPc = "L251" /\ pPc' # "L251") =>
            resp' = [code |-> 200, failure_risk |-> req.proba, label |-> req.label,
                     version |-> model_state.version]]_vars

C14_Witness ==
    /\ resp.code = 200
    /\ audit.sink = "failed"
    /\ resp.failure_risk = audit.proba

\* C15: a request hands a record to the audit sink only in the step of lines
\* 225-249, which every request that made a prediction takes once (nothing had
\* been handed over for it before, and nothing is afterwards); a request that
\* ended in 503, 400 or 500 has handed over nothing, one that ended in 200 has.
C15_OneAuditWritePerPrediction ==
    /\ [](resp.code \in {503, 400, 500} => audit.sink = "none")
    /\ [](resp.code = 200 => audit.sink # "none")
    /\ [][/\ PREDICTIONS_TOTAL' # PREDICTIONS_TOTAL => pPc' = "L226"
          /\ (pPc = "L226" /\ pPc' # "L226") =>
                (pPc' = "L251" /\ audit.sink = "none" /\ audit'.sink # "none")
          /\ (audit' # audit /\ audit'.sink # "none") => pPc = "L226"
          /\ (pPc = "L251" /\ pPc' # "L251") => (audit' = audit /\ resp'.code = 200)]_vars

C15_Witness ==
    /\ resp.code = 200
    /\ audit.sink = "written"
    /\ PREDICTIONS_TOTAL = 1
    /\ pPc = "idle"

\* C16: once load_feature_list has been applied (line 158, and line 136 of
\* every refresh), the feature list in model_state is the fallback list when
\* the file is absent and when reading it fails, the file's content in its own
\* order when it is read, and in every case has at least one name.
C16_FeatureListFallsBack ==
    lsPc # "L158" =>
       /\ featFile \in {"absent", "unreadable"} =>
             model_state.feature_list = FALLBACK_FEATURES
       /\ featFile \notin {"absent", "unreadable"} =>
             model_state.feature_list = FileContent(featFile)
       /\ Len(model_state.feature_list) >= 1

\* C17: the frame the model scores has exactly the columns of the feature list
\* in model_state, in its order; and a request whose record lacks a name of
\* that list ends in 400, with no prediction counted and nothing handed to
\* the audit sink.
C17_RecordFollowsFeatureList ==
    [][/\ (pPc = "L214" /\ pPc' = "L226") => req.cols = model_state.feature_list
       /\ (pPc = "L205" /\ pPc' # "L205" /\ ~HasColumns(model_state.feature_list)) =>
            /\ resp'.code = 400
            /\ pPc' = "idle"
            /\ PREDICTIONS_TOTAL' = PREDICTIONS_TOTAL
            /\ audit'.sink = "none"]_vars

\* C18: every /health response has code 200 and a status that is "ok" or
\* "error", whatever model_state holds and wherever a refresh is.
C18_HealthStatusOkOrError ==
    hResp.code # 0 => (hResp.code = 200 /\ hResp.status \in {"ok", "error"})

\* C19: the label a request computed, the label in its audit record and the
\* label in its response are all 1 if the probability is at least 0.5 and 0
\* if it is below, and the response's label is the audit record's.
C19_LabelIsThreshold ==
    /\ pPc \in {"L226", "L251"} =>
          req.label = (IF req.proba >= THRESHOLD THEN 1 ELSE 0)
    /\ audit.sink # "none" =>
          audit.label = (IF audit.proba >= THRESHOLD THEN 1 ELSE 0)
    /\ resp.code = 200 =>
          /\ resp.label = (IF resp.failure_risk >= THRESHOLD THEN 1 ELSE 0)
          /\ resp.label = audit.label
          /\ resp.failure_risk = audit.proba

C19_Witness ==
    /\ resp.code = 200
    /\ resp.failure_risk = THRESHOLD
    /\ resp.label = 1
    /\ audit.label = 1

\* C20: MODEL_UPDATES_TOTAL never decreases; it changes only by one, in the
\* step of line 138 of a call that has replaced the state; a call that returns
\* leaves it as it found it unless it replaced the state, and then one higher;
\* and while no call is in progress it equals the number of replacements.
C20_CounterCountsReplacements ==
    /\ []((\A c \in Callers : llm[c].pc = "idle") => MODEL_UPDATES_TOTAL = replacements)
    /\ [][/\ MODEL_UPDATES_TOTAL' >= MODEL_UPDATES_TOTAL
          /\ MODEL_UPDATES_TOTAL' # MODEL_UPDATES_TOTAL =>
                /\ MODEL_UPDATES_TOTAL' = MODEL_UPDATES_TOTAL + 1
                /\ \E c \in Callers : llm[c].pc = "L138" /\ outcome'[c] = "updated"
          /\ \A c \in Callers :
                (llm[c].pc # "idle" /\ llm'[c].pc = "idle") =>
                   MODEL_UPDATES_TOTAL' =
                      pre[c].updates + (IF outcome'[c] = "updated" THEN 1 ELSE 0)
          /\ replacements' # replacements =>
                \E c \in Callers : llm[c].pc = "L136" /\ llm'[c].pc = "L138"]_vars

C20_Witness ==
    /\ outcome["bg"] = "noop"
    /\ MODEL_UPDATES_TOTAL = 2
    /\ replacements = 2

\* What C21 names as the cases in which the job promotes: no production
\* version, a failed lookup, or an accuracy not below the production one's.
PromotionDue ==
    \/ job.lookup \in {"no_production", "failed"}
    \/ job.lookup = "found" /\ job.new_accuracy >= job.current_accuracy

\* C21: the job registers a version only when promotion is due; a run that
\* ends has, when promotion is due, registered the new model as one new
\* version and moved it to production, and otherwise has registered nothing
\* and left the production version where it was; and while promotion is not
\* due no step of the job touches the registry.
C21_PromotedIffNotWorse ==
    [][/\ registered' # registered =>
            (PromotionDue /\ registered' = Append(registered, job.new_accuracy))
       /\ prodStage' # prodStage => (PromotionDue /\ prodStage' = job.mv /\ job.mv # 0)
       /\ (job.pc # "done" /\ job'.pc = "done") =>
            IF PromotionDue
            THEN /\ registered' = Append(job.preRegistered, job.new_accuracy)
                 /\ prodStage' = Len(registered')
            ELSE /\ registered' = job.preRegistered
                 /\ prodStage' = job.preProd]_vars

C21_Witness ==
    /\ job.pc = "done"
    /\ job.runs = 2
    /\ job.lookup = "found"
    /\ job.new_accuracy < job.current_accuracy
    /\ Len(registered) = 1
    /\ prodStage = 1

====
